---- MODULE Spec2Model ----
(***************************************************************************)
(* yt_to_spotify (src/main.py): title interpretation, match resolution,     *)
(* the playlist feed, and the script that chains them to the playlist.     *)
(*                                                                         *)
(* Python strings are modelled as sequences of one-character strings, so   *)
(* that the regular expressions and str methods of the source are computed *)
(* character by character.                                                *)
(***************************************************************************)
EXTENDS Integers, Sequences, FiniteSets, TLC

VARIABLES
    \* ---- match_to_spotify(video_data, sp_client) ----
    video_data,        \* the batch: a sequence of items (their titles)
    sp_client,         \* the search stub: sp_client[i][k] answers the k-th search of item i
    pc,                \* position in match_to_spotify / in the function harness
    idx,               \* the loop counter of line 302
    results,           \* local "results"
    matched,           \* local "matched"
    unmatched_titles,  \* local "unmatched_titles"
    query,             \* local "query": Unbound until the for loop of line 310 binds it
    events,            \* calls made to the outside: search(q), sleep, in order
    outcome,           \* how match_to_spotify ended: the returned pair or the exception
    \* ---- the pure functions, applied to drawn inputs ----
    fn_title,          \* a raw title
    fn_artist,         \* an (artist, track) pair handed to build_spotify_query
    fn_track,
    fn_out,            \* the result of the last application
    fn_out2,           \* the result of applying clean_title to fn_out
    fn_sent,           \* the strings "for query in queries" hands to the search call
    \* ---- the script (__main__) and the functions only it calls ----
    matched_tracks,    \* line 483: the CSV to import from, or an empty value
    step,              \* local "step" of __main__: Unbound until line 507 binds it
    yt_pages,          \* the feed stub: yt_pages[k] answers the k-th page request
    next_page_token,   \* local "next_page_token" of get_youtube_playlist_items
    videos,            \* local "videos" of get_youtube_playlist_items
    csv_file,          \* the rows of the file matched_tracks names
    track_uris,        \* local "track_uris" of __main__
    chunk_i,           \* the loop variable "i" of add_tracks_to_playlist
    exit_status        \* how the script ended: at its last line, or by an exception

vars == <<video_data, sp_client, pc, idx, results, matched, unmatched_titles, query,
          events, outcome, fn_title, fn_artist, fn_track, fn_out, fn_out2, fn_sent,
          matched_tracks, step, yt_pages, next_page_token, videos, csv_file,
          track_uris, chunk_i, exit_status>>

\* None, and a local variable no assignment has bound yet.  Both are kept apart
\* from every str: a str is a sequence of one-character strings.
None == <<"None">>
Unbound == <<"Unbound">>

\* the script's variables where the script is not what runs
MainIdle ==
    /\ matched_tracks = None /\ step = Unbound
    /\ yt_pages = <<>> /\ next_page_token = None /\ videos = <<>>
    /\ csv_file = <<>> /\ track_uris = <<>> /\ chunk_i = 0
    /\ exit_status = None

UnchangedMain ==
    UNCHANGED <<matched_tracks, step, yt_pages, next_page_token, videos, csv_file,
                track_uris, chunk_i, exit_status>>

-----------------------------------------------------------------------------
(* Characters and the str methods the source uses                          *)

UpperChars == <<"A","B","C","D","E","F","G","H","I","J","K","L","M",
                "N","O","P","Q","R","S","T","U","V","W","X","Y","Z">>
LowerChars == <<"a","b","c","d","e","f","g","h","i","j","k","l","m",
                "n","o","p","q","r","s","t","u","v","w","x","y","z">>

\* str.lower() / re.IGNORECASE on one character
LowerChar(c) ==
    IF \E i \in 1..26 : UpperChars[i] = c
    THEN LowerChars[CHOOSE i \in 1..26 : UpperChars[i] = c]
    ELSE c

\* str.lower()
Lower(s) == [i \in 1..Len(s) |-> LowerChar(s[i])]

\* the class \s, and what str.strip() strips
Whitespace == {" "}

\* the argument of title.strip(' -:|~')
Delimiters == {" ", "-", ":", "|", "~"}

\* s[i:] of Python, i counted from 0
From(s, i) == SubSeq(s, i + 1, Len(s))

\* s[:i] of Python
Upto(s, i) == SubSeq(s, 1, i)

\* s.startswith(kw, i), i counted from 0
StartsAt(s, i, kw) ==
    /\ i + Len(kw) <= Len(s)
    /\ \A k \in 1..Len(kw) : s[i + k] = kw[k]

\* kw in s
Contains(s, kw) == \E i \in 0..Len(s) : StartsAt(s, i, kw)

\* s.strip(chars)
Strip(s, chars) ==
    LET keep == {i \in 1..Len(s) : s[i] \notin chars}
    IN  IF keep = {} THEN <<>>
        ELSE LET lo == CHOOSE i \in keep : \A j \in keep : i <= j
                 hi == CHOOSE i \in keep : \A j \in keep : j <= i
             IN  SubSeq(s, lo, hi)

\* s.lstrip()
LStripWs(s) ==
    LET keep == {i \in 1..Len(s) : s[i] \notin Whitespace}
    IN  IF keep = {} THEN <<>>
        ELSE From(s, (CHOOSE i \in keep : \A j \in keep : i <= j) - 1)

\* the smallest member of a non-empty set of numbers
Min(S) == CHOOSE x \in S : \A y \in S : x <= y

RECURSIVE SubRuns(_, _)
\* re.sub(r"\s{n,}", " ", s) for n = least: every maximal run of at least
\* `least` whitespace characters becomes one space
SubRuns(s, least) ==
    IF s = <<>> THEN <<>>
    ELSE IF s[1] \in Whitespace
    THEN LET nonws == {i \in 1..Len(s) : s[i] \notin Whitespace}
             run   == IF nonws = {} THEN Len(s) ELSE Min(nonws) - 1
         IN  (IF run >= least THEN <<" ">> ELSE Upto(s, run))
             \o SubRuns(From(s, run), least)
    ELSE <<s[1]>> \o SubRuns(Tail(s), least)

RECURSIVE RemoveChars(_, _)
\* re.sub(r"[...]", "", s) for a character class
RemoveChars(s, chars) ==
    IF s = <<>> THEN <<>>
    ELSE (IF s[1] \in chars THEN <<>> ELSE <<s[1]>>) \o RemoveChars(Tail(s), chars)

\* s.split(sep)[0] for a one-character separator
SplitFirst(s, sep) ==
    LET at == {i \in 1..Len(s) : s[i] = sep}
    IN  IF at = {} THEN s ELSE Upto(s, Min(at) - 1)

\* re.sub(pattern + "$", "", s) for a pattern that does not match the empty
\* string, given the offsets from which the rest of s matches the pattern: the
\* match starts at the leftmost of them and runs to the end
CutAt(s, at) == IF at = {} THEN s ELSE Upto(s, Min(at))

-----------------------------------------------------------------------------
(* clean_title, src/main.py lines 145-184                                  *)

KwOfficial   == <<"o","f","f","i","c","i","a","l">>
KwVideo      == <<"v","i","d","e","o">>
KwAudio      == <<"a","u","d","i","o">>
KwLyricVideo == <<"l","y","r","i","c"," ","v","i","d","e","o">>
KwMusicVideo == <<"m","u","s","i","c"," ","v","i","d","e","o">>
KwLyrics     == <<"l","y","r","i","c","s">>
KwLyric      == <<"l","y","r","i","c">>
KwHd         == <<"h","d">>
Kw4k         == <<"4","k">>
KwMv         == <<"m","v">>
KwVisualizer == <<"v","i","s","u","a","l","i","z","e","r">>
KwVevo       == <<"v","e","v","o">>
KwTopic      == <<"t","o","p","i","c">>
KwOfficialVideo == <<"o","f","f","i","c","i","a","l"," ","v","i","d","e","o">>
KwOfficialAudio == <<"o","f","f","i","c","i","a","l"," ","a","u","d","i","o">>
KwOfficialMusicVideo ==
    <<"o","f","f","i","c","i","a","l"," ","m","u","s","i","c"," ","v","i","d","e","o">>

\* line 152: the list "unwanted", in its order
unwanted == <<KwOfficialVideo, KwOfficialAudio, KwLyricVideo, KwLyrics, KwHd, Kw4k,
              KwTopic, KwVisualizer, KwMusicVideo, KwOfficialMusicVideo, KwMv>>

\* line 159, without the anchor: s matches, in full and ignoring case,
\* \s*(official\s*(video|audio|lyric video|music video)?|lyrics?|hd|4k|mv|visualizer)\s*
MatchesPromoSuffix(s) ==
    LET core == Lower(Strip(s, Whitespace))
    IN  \/ core \in {KwOfficial, KwLyrics, KwLyric, KwHd, Kw4k, KwMv, KwVisualizer}
        \/ /\ StartsAt(core, 0, KwOfficial)
           /\ LStripWs(From(core, Len(KwOfficial)))
                 \in {KwVideo, KwAudio, KwLyricVideo, KwMusicVideo}

\* line 165, without the anchor: s matches, in full and ignoring case,
\* \s*-\s*(vevo|topic)\s*
MatchesChannelSuffix(s) ==
    LET core == Lower(Strip(s, Whitespace))
    IN  /\ StartsAt(core, 0, <<"-">>)
        /\ LStripWs(Tail(core)) \in {KwVevo, KwTopic}

RECURSIVE RemoveBracketed(_)
\* line 170: re.sub(r"[\(\[].*?[\)\]]", "", s): from the first opening bracket
\* that has a closing one after it to the nearest closing one, repeatedly
RemoveBracketed(s) ==
    LET open == {i \in 1..Len(s) : s[i] \in {"(", "["}}
    IN  IF open = {} THEN s
        ELSE LET i     == Min(open)
                 close == {j \in (i + 1)..Len(s) : s[j] \in {")", "]"}}
             IN  IF close = {} THEN s
                 ELSE Upto(s, i - 1) \o RemoveBracketed(From(s, Min(close)))

RECURSIVE RemoveUnwanted(_)
\* lines 177-178: re.compile("|".join(unwanted), re.IGNORECASE).sub("", s): at
\* each position the first alternative of the list that matches is removed
RemoveUnwanted(s) ==
    IF s = <<>> THEN <<>>
    ELSE LET low == Lower(s)
             hit == {k \in 1..Len(unwanted) : StartsAt(low, 0, unwanted[k])}
         IN  IF hit = {} THEN <<s[1]>> \o RemoveUnwanted(Tail(s))
             ELSE RemoveUnwanted(From(s, Len(unwanted[Min(hit)])))

clean_title(title) ==
    LET t1 == CutAt(title, {p \in 0..Len(title) :
                              MatchesPromoSuffix(From(title, p))})      \* lines 158-162
        t2 == CutAt(t1, {p \in 0..Len(t1) :
                           MatchesChannelSuffix(From(t1, p))})          \* line 165
        t3 == RemoveChars(t2, {"\"", "'"})                  \* line 168
        t4 == Strip(SubRuns(t3, 1), Whitespace)             \* line 169
        t5 == RemoveBracketed(t4)                           \* line 170
        t6 == Strip(SubRuns(t5, 1), Whitespace)             \* line 173
        t7 == Strip(t6, Delimiters)                         \* line 174
        t8 == RemoveUnwanted(t7)                            \* lines 177-178
        t9 == Strip(t8, Delimiters)                         \* line 181
        t10 == SubRuns(t9, 2)                               \* line 182
    IN  Strip(t10, Whitespace)                              \* line 184

-----------------------------------------------------------------------------
(* handle_special_cases, src/main.py lines 187-213                         *)

KwMathRock   == <<"m","a","t","h"," ","r","o","c","k">>
KwMidwestEmo == <<"m","i","d","w","e","s","t"," ","e","m","o">>
KwMix        == <<"m","i","x">>
KwPlaylist   == <<"p","l","a","y","l","i","s","t">>
KwFullAlbum  == <<"f","u","l","l"," ","a","l","b","u","m">>
KwFullEp     == <<"f","u","l","l"," ","e","p">>
KwFullTag    == <<"[","f","u","l","l","]">>
KwCoverClose == <<"c","o","v","e","r",")">>

\* the offsets e >= from at which \s*cover\) matches in s (s already lowered
\* when the search ignores case)
CoverTails(s, from) ==
    {e \in from..Len(s) :
        \E c \in e..Len(s) :
            /\ \A k \in (e + 1)..c : s[k] \in Whitespace
            /\ StartsAt(s, c, KwCoverClose)}

\* line 207: re.search(r'\((.*?)\s*cover\)', title, re.IGNORECASE): the offsets
\* of the opening parentheses from which the pattern matches
CoverOpens(s) ==
    {i \in 0..(Len(s) - 1) : s[i + 1] = "(" /\ CoverTails(s, i + 1) # {}}

RECURSIVE RemoveCoverSpans(_)
\* line 210: re.sub(r'\s*\(.*?cover\)', '', title), which does not ignore case
RemoveCoverSpans(s) ==
    IF CoverOpens(s) = {} THEN s
    ELSE LET q   == Min(CoverOpens(s))
             c   == Min({c \in (q + 1)..Len(s) : StartsAt(s, c, KwCoverClose)})
             nws == {k \in 1..q : s[k] \notin Whitespace}
             p   == IF nws = {} THEN 0 ELSE CHOOSE k \in nws : \A j \in nws : j <= k
         IN  Upto(s, p) \o RemoveCoverSpans(From(s, c + Len(KwCoverClose)))

\* returns the pair <<artist, track>>
handle_special_cases(title) ==
    LET low == Lower(title)
    IN  IF \E x \in {KwMathRock, KwMidwestEmo, KwMix, KwPlaylist} : Contains(low, x)
        THEN <<None, Strip(SplitFirst(title, "|"), Whitespace)>>       \* lines 199-200
        ELSE IF \E x \in {KwFullAlbum, KwFullEp, KwFullTag} : Contains(low, x)
        THEN <<None, Strip(SplitFirst(title, "["), Whitespace)>>       \* lines 203-204
        ELSE IF CoverOpens(low) # {}                                    \* lines 207-208
        THEN LET i == Min(CoverOpens(low))
                 e == Min(CoverTails(low, i + 1))
             IN  <<SubSeq(title, i + 2, e), RemoveCoverSpans(title)>>   \* lines 209-211
        ELSE <<None, None>>                                             \* line 213

-----------------------------------------------------------------------------
(* extract_artist_track, src/main.py lines 216-268                         *)

\* the names src/main.py binds at module level: its imports, its assignments
\* and its def statements
ModuleGlobals ==
    {"os", "re", "time", "csv", "datetime", "build", "spotipy", "SpotifyOAuth",
     "CacheFileHandler", "load_dotenv", "logging", "yt_api", "sp_client_id",
     "sp_client_secret", "CACHE_PATH", "log", "log_match_status",
     "get_spotify_client", "get_youtube_playlist_items", "export_to_csv",
     "clean_title", "handle_special_cases", "extract_artist_track",
     "build_spotify_query", "match_to_spotify", "analyze_unmatched_patterns",
     "export_matched_to_csv", "export_unmatched_to_csv",
     "read_spotify_tracks_from_csv", "create_or_use_playlist",
     "add_tracks_to_playlist"}

\* the exceptions: the two Python raises itself, and whatever a search call raises
NameError == <<"NameError">>
ZeroDivisionError == <<"ZeroDivisionError">>
SearchError == <<"SearchError">>

\* a call's result: the value returned, or the exception raised
Return(v) == [raised |-> None, value |-> v]
Raise(e)  == [raised |-> e, value |-> None]

\* Line 218 calls the global name handle_special_casese.  No statement of the
\* module binds that name (line 187 defines handle_special_cases), so the call
\* raises NameError before anything else of the body runs, whatever the title.
\* Lines 219-268 are never reached and have no arm here.
extract_artist_track(title) ==
    CASE "handle_special_casese" \notin ModuleGlobals -> Raise(NameError)

-----------------------------------------------------------------------------
(* build_spotify_query, src/main.py lines 271-289                          *)

KwVariousArtists == <<"v","a","r","i","o","u","s"," ","a","r","t","i","s","t","s">>
KwTrackField     == <<"t","r","a","c","k",":">>
KwArtistField    == <<"a","r","t","i","s","t",":">>

\* a Python value that "for ... in" can iterate: a str or a list of str
PyStr(s)  == [type |-> "str", value |-> s]
PyList(l) == [type |-> "list", value |-> l]

\* line 280, without the anchor: s matches, in full and ignoring case,
\* (\s*-\s*topic|\s*vevo|\s*official)
MatchesBrandSuffix(s) ==
    LET core == Lower(LStripWs(s))
    IN  \/ core \in {KwVevo, KwOfficial}
        \/ StartsAt(core, 0, <<"-">>) /\ LStripWs(Tail(core)) = KwTopic

build_spotify_query(artist, track) ==
    IF artist = None \/ artist = <<>> \/ Lower(artist) = KwVariousArtists    \* line 276
    THEN PyStr(KwTrackField \o track)                                         \* line 277
    ELSE LET artist_clean ==                                                  \* line 280
                 CutAt(artist, {p \in 0..Len(artist) : MatchesBrandSuffix(From(artist, p))})
         IN  PyList(<<KwArtistField \o artist_clean \o <<" ">> \o KwTrackField \o track,
                      artist_clean \o <<" ">> \o track,
                      track>>)                                                \* lines 283-289

\* "for query in queries" (line 310): the values the loop variable takes.  A
\* list yields its elements; a str yields its characters, one at a time.
Iterate(queries) ==
    IF queries.type = "str"
    THEN [k \in 1..Len(queries.value) |-> <<queries.value[k]>>]
    ELSE queries.value

-----------------------------------------------------------------------------
(* Inputs                                                                  *)

\* the longest title drawn, in tokens
MaxTokens == 3

TitleTokens ==
    {<<"a">>, <<" ">>, <<"-">>, <<"|">>, <<"(">>, <<")">>, <<"'">>,
     <<"h","d">>, <<"L","y","r","i","c">>, <<"M","i","x">>,
     <<"(","b"," ","c","o","v","e","r",")">>, <<"[","F","u","l","l","]">>}

RECURSIVE Flatten(_)
Flatten(ts) == IF ts = <<>> THEN <<>> ELSE Head(ts) \o Flatten(Tail(ts))

\* the raw titles the functions are applied to
Titles == {Flatten(ts) : ts \in UNION {[1..n -> TitleTokens] : n \in 0..MaxTokens}}

\* the artists and tracks build_spotify_query is applied to
Artists ==
    {None, <<>>, KwVariousArtists,
     <<"V","a","r","i","o","u","s"," ","A","r","t","i","s","t","s">>,
     <<"a","b">>, <<"a","b"," ","-"," ","T","o","p","i","c">>,
     <<"a","b","V","E","V","O">>}
Tracks == {<<>>, <<"s">>, <<"s"," ","t">>}

\* the largest batch handed to match_to_spotify
MaxItems == 3

\* the titles of the items of a batch
BatchTitles == {<<"a"," ","-"," ","b">>, <<"M","i","x">>, <<"a">>}

\* the longest script of answers of the search stub
MaxScript == 3

\* what a search call can do: return hits, return no hit, raise
Answers == {"hit", "empty", "raise"}

\* item i of a batch of the given titles (lines 105-111: position counts from 1)
Item(titles, i) == [title |-> titles[i], position |-> i]

\* video_data as get_youtube_playlist_items builds it
Batches ==
    UNION {{[i \in 1..n |-> Item(ts, i)] : ts \in [1..n -> BatchTitles]} : n \in 0..MaxItems}

\* the search stubs: the answers to the successive calls of sp_client.search
Scripts == UNION {[1..n -> Answers] : n \in 0..MaxScript}

-----------------------------------------------------------------------------
(* The functions applied to drawn inputs                                   *)

Idle == <<>>

MatchIdle ==
    /\ video_data = <<>> /\ sp_client = <<>> /\ idx = 0
    /\ results = <<>> /\ matched = 0 /\ unmatched_titles = <<>>
    /\ query = Unbound /\ events = <<>> /\ outcome = None

InitFn ==
    /\ MatchIdle
    /\ MainIdle
    /\ fn_out = None /\ fn_out2 = None /\ fn_sent = Idle
    /\ \/ /\ pc = "title"
          /\ fn_title \in Titles
          /\ fn_artist = None /\ fn_track = <<>>
       \/ /\ pc = "pair"
          /\ fn_title = <<>>
          /\ fn_artist \in Artists /\ fn_track \in Tracks

UnchangedMatch ==
    UNCHANGED <<video_data, sp_client, idx, results, matched, unmatched_titles,
                query, events, outcome>>

CallCleanTitle ==
    /\ pc = "title"
    /\ pc' = "cleaned"
    /\ fn_out' = clean_title(fn_title)
    /\ UNCHANGED <<fn_title, fn_artist, fn_track, fn_out2, fn_sent>>
    /\ UnchangedMatch
    /\ UnchangedMain

CallCleanTitleAgain ==
    /\ pc = "cleaned"
    /\ pc' = "cleaned_twice"
    /\ fn_out2' = clean_title(fn_out)
    /\ UNCHANGED <<fn_title, fn_artist, fn_track, fn_out, fn_sent>>
    /\ UnchangedMatch
    /\ UnchangedMain

CallHandleSpecialCases ==
    /\ pc = "title"
    /\ pc' = "special"
    /\ fn_out' = handle_special_cases(fn_title)
    /\ UNCHANGED <<fn_title, fn_artist, fn_track, fn_out2, fn_sent>>
    /\ UnchangedMatch
    /\ UnchangedMain

CallExtractArtistTrack ==
    /\ pc = "title"
    /\ pc' = "extracted"
    /\ fn_out' = extract_artist_track(fn_title)
    /\ UNCHANGED <<fn_title, fn_artist, fn_track, fn_out2, fn_sent>>
    /\ UnchangedMatch
    /\ UnchangedMain

CallBuildSpotifyQuery ==
    /\ pc = "pair"
    /\ pc' = "built"
    /\ fn_out' = build_spotify_query(fn_artist, fn_track)
    /\ UNCHANGED <<fn_title, fn_artist, fn_track, fn_out2, fn_sent>>
    /\ UnchangedMatch
    /\ UnchangedMain

\* the loop header of line 310 run over the value build_spotify_query returned
IterateQueries ==
    /\ pc = "built"
    /\ pc' = "sent"
    /\ fn_sent' = Iterate(fn_out)
    /\ UNCHANGED <<fn_title, fn_artist, fn_track, fn_out, fn_out2>>
    /\ UnchangedMatch
    /\ UnchangedMain

NextFn ==
    \/ CallCleanTitle
    \/ CallCleanTitleAgain
    \/ CallHandleSpecialCases
    \/ CallExtractArtistTrack
    \/ CallBuildSpotifyQuery
    \/ IterateQueries

SpecFn == InitFn /\ [][NextFn]_vars

-----------------------------------------------------------------------------
(* match_to_spotify, src/main.py lines 293-362                             *)

\* line 349: the query_used of an item that failed before "query" was bound
NotApplicable == <<"N","/","A">>

\* line 357: the summary lists the first ten titles that were not matched
SummaryTitles == 10

\* sp_client.search (line 311) as the stub answers its n-th call; past the end
\* of its script it finds nothing
StubAnswer(stub, n) == IF n <= Len(stub) THEN stub[n] ELSE "empty"

\* the uri of the first hit the n-th call returned, and line 336's url of it
TrackUri(n) == <<"spotify:track:", n>>
TrackUrl(uri) == <<"https://open.spotify.com/track/", uri[2]>>

\* the number of search calls made so far
SearchCount(log) == Cardinality({n \in 1..Len(log) : log[n].op = "search"})

RECURSIVE SearchLoop(_, _, _, _, _, _)
\* lines 310-318: the for loop over the candidates, from the k-th on.  st holds
\* the locals "query" and "result" and the calls made so far in this item.
SearchLoop(cands, k, stub, calls, i, st) ==
    IF k > Len(cands)
    THEN [raised |-> None, query |-> st.query, result |-> st.result, log |-> st.log]
    ELSE LET q   == cands[k]                                              \* line 310
             ans == StubAnswer(stub, calls + 1)                          \* line 311
             log == Append(st.log, [op |-> "search", item |-> i, q |-> q])
         IN  IF ans = "raise"
             THEN [raised |-> SearchError, query |-> q, result |-> st.result, log |-> log]
             ELSE LET res == IF ans = "hit" THEN <<TrackUri(calls + 1)>> ELSE <<>>
                  IN  IF res # <<>>                                       \* line 313
                      THEN [raised |-> None, query |-> q, result |-> res, log |-> log]  \* line 318
                      ELSE SearchLoop(cands, k + 1, stub, calls + 1, i,
                                      [query |-> q, result |-> res, log |-> log])

\* lines 333-339: the dict appended for an item whose try block ran to its end.
\* The keys written into item at lines 316-317 are overwritten here.
MatchOutcome(item, spotify_uri, q) ==
    [position     |-> item.position,
     title        |-> item.title,
     spotify_uri  |-> spotify_uri,
     spotify_url  |-> IF spotify_uri # None THEN TrackUrl(spotify_uri) ELSE None,
     match_status |-> IF spotify_uri # None THEN <<"matched">> ELSE <<"unmatched">>,
     query_used   |-> q]

\* ErrorOutcome with query_used left None like the two fields before it, where
\* line 349 writes the query or the sentinel
ErrorOutcomeNoQuery(item, e, q) ==
    [position     |-> item.position,
     title        |-> item.title,
     spotify_uri  |-> None,
     spotify_url  |-> None,
     match_status |-> <<"error", e>>,
     query_used   |-> None]

\* lines 344-350: the dict appended by the except clause; q is the local "query"
ErrorOutcome(item, e, q) ==
    [position     |-> item.position,
     title        |-> item.title,
     spotify_uri  |-> None,
     spotify_url  |-> None,
     match_status |-> <<"error", e>>,
     query_used   |-> IF q # Unbound THEN q ELSE NotApplicable]

\* ExceptClause without the results.append of line 344: the failed item is
\* logged and listed as unmatched, and no outcome is recorded for it
ExceptClauseNoAppend(st, i, item, e, q, log) ==
    [results          |-> st.results,
     matched          |-> st.matched,
     unmatched_titles |-> Append(st.unmatched_titles, item.title),
     query            |-> q,
     events           |-> log \o <<[op |-> "except", item |-> i, exc |-> e],
                                   [op |-> "status", item |-> i, found |-> FALSE]>>]

\* ExceptClause counting the failed item as matched, as line 329 does for a hit
ExceptClauseCounted(st, i, item, e, q, log) ==
    [results          |-> Append(st.results, ErrorOutcome(item, e, q)),
     matched          |-> st.matched + 1,
     unmatched_titles |-> Append(st.unmatched_titles, item.title),
     query            |-> q,
     events           |-> log \o <<[op |-> "except", item |-> i, exc |-> e],
                                   [op |-> "status", item |-> i, found |-> FALSE]>>]

\* lines 341-350: the except clause: the locals and the log after it has run
ExceptClause(st, i, item, e, q, log) ==
    [results          |-> Append(st.results, ErrorOutcome(item, e, q)),
     matched          |-> st.matched,
     unmatched_titles |-> Append(st.unmatched_titles, item.title),
     query            |-> q,
     events           |-> log \o <<[op |-> "except", item |-> i, exc |-> e],
                                   [op |-> "status", item |-> i, found |-> FALSE]>>]

\* lines 320-339: the rest of the try block after the for loop
AfterSearch(st, i, item, loop, log) ==
    LET spotify_uri == IF loop.result # <<>> THEN loop.result[1] ELSE None  \* line 322
        found       == spotify_uri # None                                   \* line 323
    IN  [results          |-> Append(st.results, MatchOutcome(item, spotify_uri, loop.query)),
         matched          |-> IF found THEN st.matched + 1 ELSE st.matched,
         unmatched_titles |-> IF found THEN st.unmatched_titles
                              ELSE Append(st.unmatched_titles, item.title),
         query            |-> loop.query,
         events           |-> log \o <<[op |-> "sleep", item |-> i],
                                       [op |-> "status", item |-> i, found |-> found]>>]

\* lines 303-350: one pass of the loop body for item i, from the locals st
LoopBody(st, i, item, stub) ==
    LET extraction == extract_artist_track(item.title)                     \* line 305
    IN  IF extraction.raised # None
        THEN ExceptClause(st, i, item, extraction.raised, st.query, st.events)
        ELSE LET queries == build_spotify_query(extraction.value[1],
                                                extraction.value[2])       \* line 306
                 loop    == SearchLoop(Iterate(queries), 1, stub, SearchCount(st.events), i,
                                       [query |-> st.query, result |-> <<>>, log |-> <<>>])
             IN  IF loop.raised # None
                 THEN ExceptClause(st, i, item, loop.raised, loop.query, st.events \o loop.log)
                 ELSE AfterSearch(st, i, item, loop, st.events \o loop.log)

Locals ==
    [results |-> results, matched |-> matched, unmatched_titles |-> unmatched_titles,
     query |-> query, events |-> events]

UnchangedFn == UNCHANGED <<fn_title, fn_artist, fn_track, fn_out, fn_out2, fn_sent>>

Init ==
    /\ video_data \in Batches
    /\ sp_client \in Scripts
    /\ pc = "loop"
    /\ idx = 1                                                   \* line 302
    /\ results = <<>> /\ matched = 0 /\ unmatched_titles = <<>>  \* lines 295-297
    /\ query = Unbound
    /\ events = <<>>
    /\ outcome = None
    /\ fn_title = <<>> /\ fn_artist = None /\ fn_track = <<>>
    /\ fn_out = None /\ fn_out2 = None /\ fn_sent = Idle
    /\ MainIdle

\* lines 302-350: the loop body for the next item
Iteration ==
    /\ pc = "loop"
    /\ idx <= Len(video_data)
    /\ LET after == LoopBody(Locals, idx, video_data[idx], sp_client)
       IN  /\ results' = after.results
           /\ matched' = after.matched
           /\ unmatched_titles' = after.unmatched_titles
           /\ query' = after.query
           /\ events' = after.events
    /\ idx' = idx + 1
    /\ UNCHANGED <<video_data, sp_client, pc, outcome>>
    /\ UnchangedFn
    /\ UnchangedMain

\* lines 353-362: the summary and the return.  Line 354 divides by
\* len(video_data): with an empty batch it raises ZeroDivisionError after the
\* heading of line 353 was printed, and nothing is returned.
Summary ==
    /\ pc = "loop"
    /\ idx > Len(video_data)
    /\ pc' = "done"
    /\ IF Len(video_data) = 0
       THEN /\ outcome' = Raise(ZeroDivisionError)
            /\ events' = Append(events, [op |-> "heading"])
       ELSE /\ outcome' = Return(<<results, matched>>)
            /\ events' = events \o
                   <<[op |-> "heading"],
                     [op |-> "summary", matched |-> matched, total |-> Len(video_data),
                      titles |-> SubSeq(unmatched_titles, 1,
                                        IF Len(unmatched_titles) < SummaryTitles
                                        THEN Len(unmatched_titles) ELSE SummaryTitles)]>>
    /\ UNCHANGED <<video_data, sp_client, idx, results, matched, unmatched_titles, query>>
    /\ UnchangedFn
    /\ UnchangedMain

Next == Iteration \/ Summary

Spec == Init /\ [][Next]_vars

-----------------------------------------------------------------------------
(* get_youtube_playlist_items, src/main.py lines 86-129                    *)

\* the most pages a feed stub holds
MaxPages == 3

\* an item of a page (lines 105-111 read its snippet); a malformed one lacks
\* a field, and reading it raises KeyError
YtItem(title) == [title |-> title, complete |-> TRUE]
Malformed == [title |-> <<>>, complete |-> FALSE]

\* what request.execute() (line 101) can do: return a page, or raise
Page(items) == [raises |-> FALSE, items |-> items]
RequestFails == [raises |-> TRUE, items |-> <<>>]

PageKinds ==
    {RequestFails, Page(<<>>), Page(<<YtItem(<<"a">>)>>),
     Page(<<YtItem(<<"M","i","x">>), Malformed>>)}

\* the feed stubs: a playlist of one to MaxPages pages; every page but the
\* last carries a nextPageToken
Feeds == UNION {[1..n -> PageKinds] : n \in 1..MaxPages}

\* the pageToken of the k-th page, and the page a request with a token asks for
PageToken(k) == <<"page", k>>
PageOf(token) == IF token = None THEN 1 ELSE token[2]

RECURSIVE ReadItems(_, _, _, _)
\* lines 103-115: the for loop over the items of a page, from the j-th on
ReadItems(items, j, vs, log) ==
    IF j > Len(items)
    THEN [videos |-> vs, log |-> log]
    ELSE IF items[j].complete
         THEN ReadItems(items, j + 1,
                        Append(vs, [title |-> items[j].title, position |-> Len(vs) + 1]),
                        log)
         ELSE ReadItems(items, j + 1, vs,
                        Append(log, [op |-> "log", level |-> "WARNING",
                                     msg |-> "Skipping malformed video item"]))

UnchangedScript == UNCHANGED <<matched_tracks, yt_pages, csv_file>>

\* lines 93-127: one pass of the while loop: a page request and what follows
FetchPage ==
    /\ pc = "yt_loop"
    /\ LET k        == PageOf(next_page_token)
           response == yt_pages[k]                                       \* line 101
       IN  IF response.raises
           THEN \* lines 125-127: the except clause logs and leaves the loop
                /\ events' = Append(events, [op |-> "log", level |-> "ERROR",
                                             msg |-> "YouTube API Error"])
                /\ pc' = "yt_return"
                /\ UNCHANGED <<videos, next_page_token>>
           ELSE LET read == ReadItems(response.items, 1, videos, events)
                IN  /\ videos' = read.videos
                    /\ IF k < Len(yt_pages)                              \* lines 119-121
                       THEN /\ next_page_token' = PageToken(k + 1)
                            /\ pc' = "yt_loop"
                            /\ events' = read.log \o
                                   <<[op |-> "log", level |-> "INFO", msg |-> "Fetched"],
                                     [op |-> "sleep", item |-> 0]>>      \* line 123
                       ELSE /\ next_page_token' = None
                            /\ pc' = "yt_return"
                            /\ events' = Append(read.log,
                                   [op |-> "log", level |-> "INFO", msg |-> "Fetched"])
    /\ UNCHANGED <<video_data, sp_client, idx, results, matched, unmatched_titles, query,
                   outcome, step, track_uris, chunk_i, exit_status>>
    /\ UnchangedScript
    /\ UnchangedFn

-----------------------------------------------------------------------------
(* read_spotify_tracks_from_csv and add_tracks_to_playlist, lines 439-472   *)

\* the longest matched-tracks file
MaxRows == 205

\* a row of the file whose spotify_url is the url of track n, and one without
UrlRow(n) == [spotify_url |-> TrackUrl(TrackUri(n))]
BlankRow == [spotify_url |-> <<>>]

\* the files: n rows, of which none, the odd ones, or all lack a track url
CsvFiles ==
    {[k \in 1..n |-> IF blank = "all" \/ (blank = "odd" /\ k % 2 = 1)
                     THEN BlankRow ELSE UrlRow(k)] :
        n \in 0..MaxRows, blank \in {"none", "odd", "all"}}

\* line 445: url.startswith("https://open.spotify.com/track/")
IsTrackUrl(url) == url # <<>> /\ url[1] = "https://open.spotify.com/track/"

\* lines 441-448: the uris of the rows that hold a track url, in file order
read_spotify_tracks_from_csv(rows) ==
    LET kept == SelectSeq(rows, LAMBDA row : IsTrackUrl(row.spotify_url))
    IN  [k \in 1..Len(kept) |-> <<"spotify:track:", kept[k].spotify_url[2]>>]

\* line 469
chunk_size == 100

\* the slice without its upper limit: everything from offset i on
SliceFrom(uris, i) == SubSeq(uris, i + 1, Len(uris))

\* line 471: track_uris[i:i + chunk_size]
Slice(uris, i) == SubSeq(uris, i + 1, Min({i + chunk_size, Len(uris)}))

-----------------------------------------------------------------------------
(* __main__, src/main.py lines 476-555                                     *)

\* line 483 names the file to import from; only its truth value is read
\* (line 486), and the file it names is csv_file.  An operator who wants the
\* pipeline of lines 505-551 leaves it empty.
CsvPath == <<"m","a","t","c","h","e","d","_","t","r","a","c","k","s",".","c","s","v">>
Configurations == {CsvPath, <<>>}

SystemExit == <<"SystemExit">>
ApiError == <<"ApiError">>

\* the script ran to its last line: after its work, or after the except clause
Finished(how) == Return(<<how>>)

\* lines 553-555: the except clause of the script, entered with exception e
\* while "step" holds st.  Line 554 reads "step", which the import branch
\* never binds: there the clause itself raises NameError and logs nothing.
ExceptMain(st, e, log) ==
    IF st = Unbound
    THEN [events |-> log, exit_status |-> Raise(NameError)]
    ELSE [events |-> Append(log, [op |-> "log", level |-> "CRITICAL",
                                  msg |-> "Script failed at step", step |-> st, exc |-> e]),
          exit_status |-> Finished("failed")]

\* line 548: the uris of the outcomes that have one
MatchedUris(data) ==
    LET hits == SelectSeq(data, LAMBDA item : item.spotify_uri # None)
    IN  [k \in 1..Len(hits) |-> hits[k].spotify_uri]

UnchangedMatchLocals ==
    UNCHANGED <<idx, results, matched, unmatched_titles, query, outcome>>

UnchangedFeed == UNCHANGED <<next_page_token, videos>>

InitMain ==
    /\ matched_tracks \in Configurations
    /\ IF matched_tracks # <<>>
       THEN csv_file \in CsvFiles /\ yt_pages = <<>>
       ELSE csv_file = <<>> /\ yt_pages \in Feeds
    /\ pc = "main"
    /\ step = Unbound
    /\ next_page_token = None /\ videos = <<>>
    /\ track_uris = <<>> /\ chunk_i = 0
    /\ exit_status = None
    /\ video_data = <<>> /\ sp_client = <<>> /\ idx = 1
    /\ results = <<>> /\ matched = 0 /\ unmatched_titles = <<>>
    /\ query = Unbound /\ events = <<>> /\ outcome = None
    /\ fn_title = <<>> /\ fn_artist = None /\ fn_track = <<>>
    /\ fn_out = None /\ fn_out2 = None /\ fn_sent = Idle

\* line 486, and on its else branch lines 506-508 up to the call, with lines
\* 87-91 of the callee
Branch ==
    /\ pc = "main"
    /\ IF matched_tracks # <<>>
       THEN /\ pc' = "csv_auth"
            /\ UNCHANGED <<step, events>>
       ELSE /\ pc' = "yt_loop"
            /\ step' = <<"Step 1">>
            /\ events' = events \o
                   <<[op |-> "log", level |-> "INFO", msg |-> "STEP 1"],
                     [op |-> "log", level |-> "INFO", msg |-> "Fetching YouTube playlist"]>>
    /\ UNCHANGED <<video_data, sp_client, track_uris, chunk_i, exit_status>>
    /\ UnchangedMatchLocals /\ UnchangedFeed /\ UnchangedScript /\ UnchangedFn

\* line 129 and lines 508-509: the list comes back and becomes youtube_data
ReturnVideos ==
    /\ pc = "yt_return"
    /\ video_data' = videos
    /\ events' = Append(events, [op |-> "log", level |-> "INFO", msg |-> "Retrieved",
                                 count |-> Len(videos)])
    /\ pc' = "step2"
    /\ UNCHANGED <<sp_client, step, track_uris, chunk_i, exit_status>>
    /\ UnchangedMatchLocals /\ UnchangedFeed /\ UnchangedScript /\ UnchangedFn

\* lines 511-514: export_to_csv catches what it raises (lines 132-142), so the
\* script goes on whether the file was written or not
ExportSource ==
    /\ pc = "step2"
    /\ step' = <<"Step 2">>
    /\ \E written \in BOOLEAN :
          events' = events \o
              <<[op |-> "log", level |-> "INFO", msg |-> "STEP 2"],
                [op |-> "export_to_csv", count |-> Len(video_data), written |-> written],
                [op |-> "log", level |-> "INFO", msg |-> "CSV export completed"]>>
    /\ pc' = "step3"
    /\ UNCHANGED <<video_data, sp_client, track_uris, chunk_i, exit_status>>
    /\ UnchangedMatchLocals /\ UnchangedFeed /\ UnchangedScript /\ UnchangedFn

\* lines 516-523: get_spotify_client returns a client, or logs and raises again
\* (lines 81-83); with a client, match_to_spotify is entered (lines 295-297)
Authenticate ==
    /\ pc = "step3"
    /\ LET log == Append(events, [op |-> "log", level |-> "INFO", msg |-> "STEP 3"])
       IN  \/ /\ sp_client' \in Scripts
              /\ step' = <<"Step 4">>
              /\ events' = log \o
                     <<[op |-> "get_spotify_client", ok |-> TRUE],
                       [op |-> "log", level |-> "INFO", msg |-> "STEP 4",
                        count |-> Len(video_data)]>>
              /\ pc' = "loop"
              /\ UNCHANGED exit_status
           \/ LET handled == ExceptMain(<<"Step 3">>, ApiError,
                                 Append(log, [op |-> "get_spotify_client", ok |-> FALSE]))
              IN  /\ step' = <<"Step 3">>
                  /\ events' = handled.events
                  /\ exit_status' = handled.exit_status
                  /\ pc' = "main_done"
                  /\ UNCHANGED sp_client
    /\ UNCHANGED <<video_data, track_uris, chunk_i>>
    /\ UnchangedMatchLocals /\ UnchangedFeed /\ UnchangedScript /\ UnchangedFn

\* lines 523-529: match_to_spotify has ended.  What it raised goes to the
\* except clause of the script; what it returned is exported (both exports
\* catch what they raise, lines 397-437).
AfterMatching ==
    /\ pc = "done"
    /\ step = <<"Step 4">>
    /\ IF outcome.raised # None
       THEN LET handled == ExceptMain(step, outcome.raised, events)
            IN  /\ events' = handled.events
                /\ exit_status' = handled.exit_status
                /\ pc' = "main_done"
       ELSE /\ events' = events \o
                   <<[op |-> "log", level |-> "INFO", msg |-> "Matching completed",
                      matched |-> outcome.value[2], total |-> Len(video_data)],
                     [op |-> "export_matched_to_csv", count |-> Len(outcome.value[1])],
                     [op |-> "export_unmatched_to_csv", count |-> Len(outcome.value[1])]>>
            /\ pc' = "step5"
            /\ UNCHANGED exit_status
    /\ UNCHANGED <<video_data, sp_client, step, track_uris, chunk_i>>
    /\ UnchangedMatchLocals /\ UnchangedFeed /\ UnchangedScript /\ UnchangedFn

\* lines 532-545: the playlist is looked up or created, or the call raises
ChoosePlaylist ==
    /\ pc = "step5"
    /\ step' = <<"Step 5">>
    /\ LET log == Append(events, [op |-> "log", level |-> "INFO", msg |-> "STEP 5"])
       IN  \/ /\ events' = Append(log, [op |-> "playlist", ok |-> TRUE])
              /\ pc' = "step6"
              /\ UNCHANGED exit_status
           \/ LET handled == ExceptMain(<<"Step 5">>, ApiError,
                                 Append(log, [op |-> "playlist", ok |-> FALSE]))
              IN  /\ events' = handled.events
                  /\ exit_status' = handled.exit_status
                  /\ pc' = "main_done"
    /\ UNCHANGED <<video_data, sp_client, track_uris, chunk_i>>
    /\ UnchangedMatchLocals /\ UnchangedFeed /\ UnchangedScript /\ UnchangedFn

\* lines 547-551: every matched uri goes into one call of playlist_add_items.
\* No line binds "step" here: a failure is reported as one of Step 5.
AddMatched ==
    /\ pc = "step6"
    /\ LET matched_uris == MatchedUris(results)                          \* line 548
           log == events \o
                  <<[op |-> "log", level |-> "INFO", msg |-> "STEP 6"],
                    [op |-> "playlist_add_items", uris |-> matched_uris]>>  \* line 549
       IN  \/ /\ events' = Append(log, [op |-> "log", level |-> "INFO",
                                        msg |-> "Matching completed."])
              /\ exit_status' = Finished("complete")
           \/ LET handled == ExceptMain(step, ApiError, log)
              IN  /\ events' = handled.events
                  /\ exit_status' = handled.exit_status
    /\ pc' = "main_done"
    /\ UNCHANGED <<video_data, sp_client, step, track_uris, chunk_i>>
    /\ UnchangedMatchLocals /\ UnchangedFeed /\ UnchangedScript /\ UnchangedFn

\* line 487: get_spotify_client on the import branch
AuthenticateImport ==
    /\ pc = "csv_auth"
    /\ \/ /\ events' = Append(events, [op |-> "get_spotify_client", ok |-> TRUE])
          /\ pc' = "csv_read"
          /\ UNCHANGED exit_status
       \/ LET handled == ExceptMain(step, ApiError,
                             Append(events, [op |-> "get_spotify_client", ok |-> FALSE]))
          IN  /\ events' = handled.events
              /\ exit_status' = handled.exit_status
              /\ pc' = "main_done"
    /\ UNCHANGED <<video_data, sp_client, step, track_uris, chunk_i>>
    /\ UnchangedMatchLocals /\ UnchangedFeed /\ UnchangedScript /\ UnchangedFn

\* lines 490-494: the file is read; with no uri in it the script exits, and
\* SystemExit passes the "except Exception" of line 553
ReadTracks ==
    /\ pc = "csv_read"
    /\ track_uris' = read_spotify_tracks_from_csv(csv_file)
    /\ IF track_uris' = <<>>
       THEN /\ events' = Append(events, [op |-> "log", level |-> "INFO",
                                         msg |-> "No valid Spotify track URLs"])
            /\ exit_status' = Raise(SystemExit)
            /\ pc' = "main_done"
       ELSE /\ pc' = "csv_playlist"
            /\ UNCHANGED <<events, exit_status>>
    /\ UNCHANGED <<video_data, sp_client, step, chunk_i>>
    /\ UnchangedMatchLocals /\ UnchangedFeed /\ UnchangedScript /\ UnchangedFn

\* lines 497-500: create_or_use_playlist returns a playlist or
\* raises; with a playlist, add_tracks_to_playlist is entered
ChoosePlaylistImport ==
    /\ pc = "csv_playlist"
    /\ \/ /\ events' = Append(events, [op |-> "playlist", ok |-> TRUE])
          /\ pc' = "add"
          /\ chunk_i' = 0
          /\ UNCHANGED exit_status
       \/ LET handled == ExceptMain(step, ApiError,
                             Append(events, [op |-> "playlist", ok |-> FALSE]))
          IN  /\ events' = handled.events
              /\ exit_status' = handled.exit_status
              /\ pc' = "main_done"
              /\ UNCHANGED chunk_i
    /\ UNCHANGED <<video_data, sp_client, step, track_uris>>
    /\ UnchangedMatchLocals /\ UnchangedFeed /\ UnchangedScript /\ UnchangedFn

\* lines 470-471: one pass of the for loop of add_tracks_to_playlist
AddChunk ==
    /\ pc = "add"
    /\ chunk_i < Len(track_uris)
    /\ LET log == Append(events, [op |-> "playlist_add_items",
                                  uris |-> Slice(track_uris, chunk_i)])
       IN  \/ /\ events' = log
              /\ chunk_i' = chunk_i + chunk_size
              /\ UNCHANGED <<pc, exit_status>>
           \/ LET handled == ExceptMain(step, ApiError, log)
              IN  /\ events' = handled.events
                  /\ exit_status' = handled.exit_status
                  /\ pc' = "main_done"
                  /\ UNCHANGED chunk_i
    /\ UNCHANGED <<video_data, sp_client, step, track_uris>>
    /\ UnchangedMatchLocals /\ UnchangedFeed /\ UnchangedScript /\ UnchangedFn

\* line 472 and line 502: the loop is over and the script ends
FinishImport ==
    /\ pc = "add"
    /\ chunk_i >= Len(track_uris)
    /\ events' = events \o
           <<[op |-> "print", msg |-> "Added", count |-> Len(track_uris)],
             [op |-> "log", level |-> "INFO", msg |-> "Playlist update complete!"]>>
    /\ exit_status' = Finished("complete")
    /\ pc' = "main_done"
    /\ UNCHANGED <<video_data, sp_client, step, track_uris, chunk_i>>
    /\ UnchangedMatchLocals /\ UnchangedFeed /\ UnchangedScript /\ UnchangedFn

NextMain ==
    \/ Branch
    \/ FetchPage \/ ReturnVideos \/ ExportSource \/ Authenticate
    \/ Iteration \/ Summary \/ AfterMatching \/ ChoosePlaylist \/ AddMatched
    \/ AuthenticateImport \/ ReadTracks \/ ChoosePlaylistImport \/ AddChunk \/ FinishImport

SpecMain == InitMain /\ [][NextMain]_vars

-----------------------------------------------------------------------------
(* What the claims say                                                     *)

\* the search calls made for item i, in order, each with its place among all
\* the search calls of the run
SearchesOf(i) ==
    LET at == {n \in 1..Len(events) : events[n].op = "search" /\ events[n].item = i}
    IN  [k \in 1..Cardinality(at) |->
            LET n == CHOOSE n \in at : Cardinality({m \in at : m <= n}) = k
            IN  [q |-> events[n].q, call |-> SearchCount(SubSeq(events, 1, n))]]

\* the number of search calls made for the items before item i
SearchesBefore(i) ==
    Cardinality({n \in 1..Len(events) : events[n].op = "search" /\ events[n].item < i})

Returned == pc = "done" /\ outcome.raised = None

\* C1: for every processed item, no search follows a search of the same item
\* that found something, and an item whose first candidate the search answers
\* with a hit is recorded Matched, with the uri of that hit and with that
\* candidate as query_used.
C1_StopsAtFirstHit ==
    \A i \in 1..Len(results) :
        LET mine == SearchesOf(i)
        IN  /\ \A k \in 1..(Len(mine) - 1) : StubAnswer(sp_client, mine[k].call) = "empty"
            /\ StubAnswer(sp_client, SearchesBefore(i) + 1) = "hit"
                  => /\ Len(mine) = 1
                     /\ results[i].spotify_uri = TrackUri(mine[1].call)
                     /\ results[i].query_used = mine[1].q

\* C2: every item whose processing raised has an Error outcome recorded at its
\* place, and the results match_to_spotify returns hold one outcome per input
\* item, in input order.
C2_FailuresIsolated ==
    /\ \A n \in 1..Len(events) :
          events[n].op = "except" =>
              LET i == events[n].item
              IN  /\ i <= Len(results)
                  /\ results[i].position = video_data[i].position
                  /\ results[i].title = video_data[i].title
                  /\ results[i].match_status = <<"error", events[n].exc>>
                  /\ results[i].spotify_uri = None
    /\ Returned =>
          LET returned == outcome.value[1]
          IN  /\ Len(returned) = Len(video_data)
              /\ \A i \in 1..Len(video_data) :
                    /\ returned[i].position = video_data[i].position
                    /\ returned[i].title = video_data[i].title

\* C2 witness: a batch was returned in which the first item failed and a later
\* item was processed after it.
C2_Witness ==
    /\ Returned
    /\ Len(video_data) >= 2
    /\ \E n \in 1..Len(events) : events[n].op = "except" /\ events[n].item = 1
    /\ \E n \in 1..Len(events) : events[n].op = "status" /\ events[n].item = 2

\* C3: when match_to_spotify returns, the matched count it returns is the
\* number of returned outcomes whose spotify_uri is set, and there are as many
\* returned outcomes as input items.
C3_CountsAgree ==
    Returned =>
        LET returned == outcome.value[1]
        IN  /\ outcome.value[2] =
                  Cardinality({i \in 1..Len(returned) : returned[i].spotify_uri # None})
            /\ Len(returned) = Len(video_data)

\* C3 witness: match_to_spotify returned for a batch of several items.
C3_Witness == Returned /\ Len(video_data) >= 2 /\ Len(outcome.value[1]) >= 2

\* C4: extract_artist_track returns a pair for every title, without raising,
\* and the track of the pair is not None.
C4_ExtractTotal ==
    pc = "extracted" => fn_out.raised = None /\ fn_out.value[2] # None

\* C5: when handle_special_cases gives a track for the raw title, whether or
\* not it gives an artist, extract_artist_track returns that very pair.
C5_SpecialCaseReturned ==
    pc = "extracted" =>
        LET special == handle_special_cases(fn_title)
        IN  special[2] # None => fn_out = Return(special)

\* C6: with no artist, or the artist 'various artists' in any case, the loop
\* over the value build_spotify_query returns sends exactly one query, the
\* whole string track:<track>.
C6_SingleTrackQuery ==
    (pc = "sent" /\ (fn_artist = None \/ Lower(fn_artist) = KwVariousArtists))
        => fn_sent = <<KwTrackField \o fn_track>>

\* C7: clean_title applied to its own result changes nothing.
C7_CleanIdempotent ==
    pc = "cleaned_twice" => fn_out2 = fn_out

\* C8: for every batch, once the loop has ended the summary is printed and
\* (results, matched) is returned; no exception leaves match_to_spotify.
C8_SummaryTotal ==
    pc = "done" =>
        /\ outcome.raised = None
        /\ \E n \in 1..Len(events) : events[n].op = "summary"

\* C9: the query_used of an Error outcome is the query of the last search call
\* made for that same item, or N/A when no search call was made for it.
C9_ErrorQueryOwn ==
    \A i \in 1..Len(results) :
        results[i].match_status[1] = "error" =>
            LET mine == SearchesOf(i)
            IN  results[i].query_used =
                    IF mine = <<>> THEN NotApplicable ELSE mine[Len(mine)].q

\* C9 witness: an item after the first failed before any search call was made
\* for it, and its Error outcome is recorded.
C9_Witness ==
    /\ Len(results) >= 2
    /\ results[2].match_status[1] = "error"
    /\ SearchesOf(2) = <<>>
    /\ results[2].query_used = NotApplicable

\* a page request of the feed has raised (line 126 logged it)
FeedFailed ==
    \E n \in 1..Len(events) :
        /\ events[n].op = "log"
        /\ events[n].level = "ERROR"
        /\ events[n].msg = "YouTube API Error"

\* what the stages after the fetch do to the outside: the source export,
\* the authentication, the matching of an item, the playlist calls
LaterStageOps ==
    {"export_to_csv", "get_spotify_client", "except", "status", "search",
     "export_matched_to_csv", "export_unmatched_to_csv", "playlist", "playlist_add_items"}

\* the except clause of the script has reported a failure of the given step
ReportedAt(st) ==
    \E n \in 1..Len(events) :
        /\ events[n].op = "log"
        /\ events[n].level = "CRITICAL"
        /\ events[n].step = st

\* C11: once a page request of the source feed has failed, no later stage
\* (source export, authentication, matching, playlist insertion) runs, and a
\* script that has ended has reported Step 1, the fetch, as the failing stage.
C11_FeedFailureHalts ==
    FeedFailed =>
        /\ \A n \in 1..Len(events) : events[n].op \notin LaterStageOps
        /\ pc = "main_done" => ReportedAt(<<"Step 1">>)

\* the calls of playlist_add_items made so far, in order
AddCalls == SelectSeq(events, LAMBDA e : e.op = "playlist_add_items")

RECURSIVE Concatenation(_, _)
\* the uri lists of the calls from the k-th on, end to end
Concatenation(calls, k) ==
    IF k > Len(calls) THEN <<>> ELSE calls[k].uris \o Concatenation(calls, k + 1)

\* the list the script has to insert: the file's uris on the import branch,
\* the uris of the matched outcomes on the pipeline's
InputUris == IF matched_tracks # <<>> THEN track_uris ELSE MatchedUris(results)

IsPrefix(a, b) == Len(a) <= Len(b) /\ a = SubSeq(b, 1, Len(a))

\* the script ran to its last line without entering its except clause
Completed == pc = "main_done" /\ exit_status = Finished("complete")

\* C12: every call of playlist_add_items, on the import branch and in step 6
\* of the pipeline, carries at most 100 uris; the lists of the successive
\* calls, end to end, are the beginning of the input list in its order, and
\* the whole of it once the script has completed.
C12_ChunkedInOrder ==
    /\ \A k \in 1..Len(AddCalls) : Len(AddCalls[k].uris) <= 100
    /\ IsPrefix(Concatenation(AddCalls, 1), InputUris)
    /\ Completed => Concatenation(AddCalls, 1) = InputUris

\* an import of more than two hundred uris has completed, in three calls or more
C12_Witness ==
    /\ Completed
    /\ matched_tracks # <<>>
    /\ Len(track_uris) > 200
    /\ Len(AddCalls) >= 3
====
